---- MODULE Spec2Model ----
(***************************************************************************)
(* Model of the STM24256 EEPROM driver (src/STM24256.cpp, src/STM24256.h). *)
(*                                                                         *)
(* The driver's state is the write-control line, the I2C bus lock and the  *)
(* static segment table of get_array_slice_locs.  Its environment is the   *)
(* EEPROM behind the bus: an address counter, the bytes of the page write  *)
(* in progress and the memory array.  Each public call is one action of    *)
(* Spec; the bus primitives it issues are recorded, in order, in the       *)
(* trace of the call.                                                       *)
(***************************************************************************)
EXTENDS Integers, Sequences, FiniteSets, TLC

VARIABLES
    mem,            \* EEPROM array: address -> byte, for the addresses written so far
    devPtr,         \* EEPROM internal address counter
    devPend,        \* data bytes of the page write in progress (not yet committed)
    devRx,          \* bytes the EEPROM accepted since the last start condition
    write_control,  \* STM24256::_write_control
    lockOwner,      \* thread holding the I2C mutex, 0 when free
    lockDepth,      \* recursion depth of the I2C mutex
    chunks,         \* static int chunks[16][2] of get_array_slice_locs
    pend,           \* per thread: the write call that has left its locked region
    call,           \* the call that returned last
    prev,           \* the call that returned before it
    plan,           \* the last result of get_array_slice_locs
    busLog,         \* locked bus regions, in order: <<thread, call number, part>>
    ncalls          \* number of calls started

vars == <<mem, devPtr, devPend, devRx, write_control, lockOwner, lockDepth,
          chunks, pend, call, prev, plan, busLog, ncalls>>

----------------------------------------------------------------------------
(* Program constants *)

EEPROM_OK == 0
EEPROM_SET_OP_ADDRESS_FAIL_MEM_ARRAY == 1
EEPROM_SET_OP_ADDRESS_FAIL_MSB == 2
EEPROM_SET_OP_ADDRESS_FAIL_LSB == 3
EEPROM_READ_FAIL == 4
EEPROM_WRITE_FAIL == 5
EEPROM_VERIFY_FAIL == 6
EEPROM_DATA_LENGTH_ODD == 7
EEPROM_DATA_LENGTH_ZERO == 8

\* In the place of a status: the call never returns one.
NoReturn == -1

EEPROM_WRITE_ENABLE == 0
EEPROM_WRITE_DISABLE == 1

EEPROM_MEM_ARRAY_ADDRESS_READ == 161
EEPROM_MEM_ARRAY_ADDRESS_WRITE == 160

LENGTH_DIM == 0
ADDRESS_DIM == 1

PageSize == 64
TableSize == 16
Uint16 == 65536
Uint8 == 256

----------------------------------------------------------------------------
(* Bounds of the model *)

MaxCalls == 2        \* calls per behaviour
NumThreads == 2      \* concurrent callers in SpecConc

----------------------------------------------------------------------------
(* With(e, F): F applied to the value of e, computed once.                  *)

With(e, F(_)) == CHOOSE y \in {F(x) : x \in {e}} : TRUE

\* The loops of the driver are run in batches of BatchLen iterations.
BatchLen == PageSize \div 8

----------------------------------------------------------------------------
(* Caller buffers and initial EEPROM content *)

\* The caller's data buffer number p: data[0..n-1] as a sequence 1..n.
DataOf(p, n) == [i \in 1..n |-> (((p * 17) + (i * 3)) % 255) + 1]

\* Caller's receive buffer before a read: all zero.
Blank(n) == [i \in 1..n |-> 0]

\* Content of a cell never written: factory pattern, never 0.
Fill(a) == (a % 251) + 1

DevByte(m, a) == IF a \in DOMAIN m THEN m[a] ELSE Fill(a)

----------------------------------------------------------------------------
(* A bus transfer is named <<stage, segment, kind, index>>; the environment *)
(* fails (does not acknowledge) the transfers in the call's fault set.      *)

NoFault == {}

Acked(fault, stage, seg, kind, idx) == <<stage, seg, kind, idx>> \notin fault

----------------------------------------------------------------------------
(* The bus and the EEPROM behind it.  b is a record                         *)
(* [mem, ptr, pnd, rx, wc, depth, trace, bad].                              *)

Emit(b, ev) == [b EXCEPT !.trace = Append(@, ev)]

I2cLock(b) == Emit([b EXCEPT !.depth = @ + 1], <<"lock", 0, 0>>)

I2cUnlock(b) == Emit([b EXCEPT !.depth = @ - 1], <<"unlock", 0, 0>>)

\* A start condition: the EEPROM drops a page write that was not closed by a stop.
I2cStart(b) == Emit([b EXCEPT !.rx = 0, !.pnd = <<>>], <<"start", 0, 0>>)

PageOf(address) == address \div PageSize

\* Address inside the page of base address a, j bytes on (page roll-over).
PageWrap(a, j) == ((a \div PageSize) * PageSize) + ((a + j) % PageSize)

StoredByte(b, a, v) == IF a = b.bad THEN (v + 1) % Uint8 ELSE v

\* The array after the pending bytes are programmed: byte j goes to the cell j - 1
\* on from the address counter, inside its page; a later byte overwrites an earlier one.
Commit(b) ==
    LET n == Len(b.pnd)
        d(x) == (x - b.ptr) % PageSize
        hit(x) == PageOf(x) = PageOf(b.ptr) /\ d(x) < n
        last(x) == (d(x) + 1) + (PageSize * ((n - (d(x) + 1)) \div PageSize))
    IN [x \in (DOMAIN b.mem) \cup {PageWrap(b.ptr, j - 1) : j \in 1..n} |->
            IF hit(x) THEN StoredByte(b, x, b.pnd[last(x)]) ELSE b.mem[x]]

\* A stop condition: a pending page write is committed when writes are permitted.
I2cStop(b) ==
    LET n == Len(b.pnd)
        b1 == IF n > 0 /\ b.wc = EEPROM_WRITE_ENABLE
              THEN [b EXCEPT !.mem = Commit(b), !.ptr = PageWrap(b.ptr, n)]
              ELSE b
    IN Emit([b1 EXCEPT !.rx = 0, !.pnd = <<>>], <<"stop", 0, 0>>)

\* One byte written on the bus; ack is the EEPROM's answer.
I2cWrite(b, byte, ack) ==
    LET b1 == IF ~ack THEN b
              ELSE IF b.rx = 0 THEN [b EXCEPT !.rx = 1]
              ELSE IF b.rx = 1 THEN [b EXCEPT !.rx = 2, !.ptr = (byte * Uint8) + (b.ptr % Uint8)]
              ELSE IF b.rx = 2 THEN [b EXCEPT !.rx = 3, !.ptr = ((b.ptr \div Uint8) * Uint8) + byte]
              ELSE [b EXCEPT !.pnd = Append(@, byte)]
    IN Emit(b1, <<"write", byte, IF ack THEN 1 ELSE 0>>)

\* The bytes a block read of n bytes returns: the array from the address counter on.
ReadBytes(b, n) == [i \in 1..n |-> DevByte(b.mem, (b.ptr + (i - 1)) % Uint16)]

\* Block read _i2c.read(EEPROM_MEM_ARRAY_ADDRESS_READ, buf, n): start, select, n bytes, stop.
I2cRead(b, n, ok) ==
    LET b1 == IF ok THEN [b EXCEPT !.ptr = (b.ptr + n) % Uint16, !.rx = 0, !.pnd = <<>>]
              ELSE [b EXCEPT !.rx = 0, !.pnd = <<>>]
    IN Emit(b1, <<"read", n, IF ok THEN 1 ELSE 0>>)

Wait(b) == Emit(b, <<"wait", 5000, 0>>)

----------------------------------------------------------------------------
(* Write-protect gate *)

enable_write(b) == Emit([b EXCEPT !.wc = EEPROM_WRITE_ENABLE], <<"wc", EEPROM_WRITE_ENABLE, 0>>)

disable_write(b) == Emit([b EXCEPT !.wc = EEPROM_WRITE_DISABLE], <<"wc", EEPROM_WRITE_DISABLE, 0>>)

----------------------------------------------------------------------------
(* set_operation_address: the address phase of one page-level operation.    *)
(* Returns [bus, status].                                                   *)

\* The status of an address phase whose byte `kind` was not acknowledged.
AddressPhaseStatus_Swapped(kind) ==
    IF kind = "sel" THEN EEPROM_SET_OP_ADDRESS_FAIL_MEM_ARRAY
    ELSE IF kind = "msb" THEN EEPROM_SET_OP_ADDRESS_FAIL_LSB
    ELSE EEPROM_SET_OP_ADDRESS_FAIL_MSB

AddressPhaseStatus(kind) ==
    IF kind = "sel" THEN EEPROM_SET_OP_ADDRESS_FAIL_MEM_ARRAY
    ELSE IF kind = "msb" THEN EEPROM_SET_OP_ADDRESS_FAIL_MSB
    ELSE EEPROM_SET_OP_ADDRESS_FAIL_LSB

AddressPhaseFail_NoStop(b, kind) ==
    [bus |-> I2cUnlock(b), status |-> AddressPhaseStatus(kind)]

\* Lines 68-70, 75-77, 82-84: stop, unlock, return the error.
AddressPhaseFail(b, kind) ==
    [bus |-> I2cUnlock(I2cStop(b)), status |-> AddressPhaseStatus(kind)]

\* Lines 87-90: if(send_stop) _i2c.stop();
StopAfterAddress_Always(b, send_stop) == I2cStop(b)

StopAfterAddress(b, send_stop) == IF send_stop THEN I2cStop(b) ELSE b

set_operation_address(b, address, send_stop, fault, stage, seg) ==
    LET address_msb == (address \div Uint8) % Uint8
        address_lsb == address % Uint8
        ackSel == Acked(fault, stage, seg, "sel", 0)
        ackMsb == Acked(fault, stage, seg, "msb", 0)
        ackLsb == Acked(fault, stage, seg, "lsb", 0)
    IN With(I2cWrite(I2cStart(I2cLock(b)), EEPROM_MEM_ARRAY_ADDRESS_WRITE, ackSel),
        LAMBDA b2 :
        IF ~ackSel THEN AddressPhaseFail(b2, "sel")
        ELSE With(I2cWrite(b2, address_msb, ackMsb), LAMBDA b3 :
        IF ~ackMsb THEN AddressPhaseFail(b3, "msb")
        ELSE With(I2cWrite(b3, address_lsb, ackLsb), LAMBDA b4 :
        IF ~ackLsb THEN AddressPhaseFail(b4, "lsb")
        ELSE [bus |-> I2cUnlock(StopAfterAddress(b4, send_stop)),
              status |-> EEPROM_OK])))

----------------------------------------------------------------------------
(* get_array_slice_locs: the page boundary planner.                         *)
(* tab is the static table, a function 0..TableSize-1 -> <<length, address>>*)
(* Returns [chunks, boundaries, oob, hang]: oob when an entry outside the   *)
(* table was written, hang when the scan never ends.                        *)

\* chunks[idx][LENGTH_DIM] = len; chunks[idx][ADDRESS_DIM] = addr.
SetChunk(r, idx, len, addr) ==
    IF idx < TableSize
    THEN [r EXCEPT !.chunks = [@ EXCEPT ![idx] = <<len, addr>>]]
    ELSE [r EXCEPT !.oob = TRUE]

\* The if / else-if of the loop body, for the byte at r.address.
SliceMark(r) ==
    LET byte_page == PageOf(r.address)
    IN IF r.current_page = -1 THEN [r EXCEPT !.current_page = byte_page]
       ELSE IF r.current_page /= byte_page
       THEN [SetChunk(r, r.chunk_index, r.address - r.chunk_start_address,
                      r.chunk_start_address)
             EXCEPT !.current_page = byte_page,
                    !.chunk_start_address = r.address,
                    !.chunk_index = @ + 1,
                    !.boundaries = @ + 1]
       ELSE r

\* One iteration of the for loop.
SliceStep(start_address, data_length, r) ==
    LET end_page == ((start_address + data_length) - 1) \div PageSize
    IN With(SliceMark(r), LAMBDA r1 :
        IF r1.current_page = end_page
        THEN [SetChunk(r1, r1.chunk_index,
                       (start_address + data_length) - r1.chunk_start_address,
                       r1.chunk_start_address)
              EXCEPT !.break = TRUE]
        ELSE IF r1.address + 1 = Uint16
        THEN \* the uint16_t counter wraps to 0, below start_address + data_length,
             \* and no page of the array is end_page: the scan does not end
             [r1 EXCEPT !.hang = TRUE]
        ELSE [r1 EXCEPT !.address = @ + 1])

SliceDone(start_address, data_length, r) ==
    r.break \/ r.hang \/ ~(r.address < start_address + data_length)

\* At most k iterations of the for loop.
RECURSIVE SliceRun(_, _, _, _)
SliceRun(start_address, data_length, r, k) ==
    IF k = 0 \/ SliceDone(start_address, data_length, r) THEN r
    ELSE With(SliceStep(start_address, data_length, r), LAMBDA r1 :
            SliceRun(start_address, data_length, r1, k - 1))

\* At most k * BatchLen iterations of the for loop.
RECURSIVE SliceRuns(_, _, _, _)
SliceRuns(start_address, data_length, r, k) ==
    IF k = 0 \/ SliceDone(start_address, data_length, r) THEN r
    ELSE With(SliceRun(start_address, data_length, r, BatchLen), LAMBDA r1 :
            SliceRuns(start_address, data_length, r1, k - 1))

\* The for loop, run PageSize iterations at a time.
RECURSIVE SliceLoop(_, _, _)
SliceLoop(start_address, data_length, r) ==
    IF SliceDone(start_address, data_length, r) THEN r
    ELSE With(SliceRuns(start_address, data_length, r, PageSize \div BatchLen),
              LAMBDA r1 : SliceLoop(start_address, data_length, r1))

\* Returns [chunks, boundaries, oob, hang, ...].
get_array_slice_locs(tab, start_address, data_length) ==
    SliceLoop(start_address, data_length,
              [chunks |-> tab, boundaries |-> 0, oob |-> FALSE, hang |-> FALSE,
               break |-> FALSE, address |-> start_address, current_page |-> -1,
               chunk_start_address |-> start_address, chunk_index |-> 0])

SliceLen(sl, k) == sl[k][LENGTH_DIM + 1]
SliceAddr(sl, k) == sl[k][ADDRESS_DIM + 1]

----------------------------------------------------------------------------
(* read_from_address.  data is the caller's buffer, a sequence 1..n for     *)
(* data[0..n-1].  Returns [bus, chunks, status, data].                      *)

LengthIsZero_OnlyZero(data_length) == data_length = 0

LengthIsZero(data_length) == data_length <= 0

\* start_idx of the buffer for segment `boundary`.
StartIdx(sl, boundary) ==
    IF boundary = 0 THEN 0 ELSE SliceLen(sl, boundary - 1)

\* data[start_idx .. start_idx + len - 1] := bytes
Store(data, start_idx, bytes) ==
    [i \in 1..Len(data) |->
        IF i > start_idx /\ i <= start_idx + Len(bytes)
        THEN bytes[i - start_idx] ELSE data[i]]

\* One page-level read (lines 167-178, 192-220): the address phase closed by a stop,
\* then the block read into data[start_idx ..].  Returns [bus, status, data]; the
\* caller's unlock is not included.
ReadSegment(b, address, start_idx, len, data, fault, stage, seg) ==
    LET ok == Acked(fault, stage, seg, "read", 0)
    IN With(set_operation_address(b, address, TRUE, fault, stage, seg), LAMBDA r :
        IF r.status /= EEPROM_OK
        THEN [bus |-> r.bus, status |-> r.status, data |-> data]
        ELSE IF ~ok
        THEN [bus |-> I2cRead(r.bus, len, ok), status |-> EEPROM_READ_FAIL, data |-> data]
        ELSE [bus |-> I2cRead(r.bus, len, ok), status |-> EEPROM_OK,
              data |-> Store(data, start_idx, ReadBytes(r.bus, len))])

\* if(boundary != boundaries) wait_us(5000);
SettleAfter_Always(boundary, boundaries) == TRUE

SettleAfter(boundary, boundaries) == boundary /= boundaries

\* if(status != EEPROM_OK) { ... return status; } inside the multi-page loops.
Aborts_Never(status) == FALSE

Aborts(status) == status /= EEPROM_OK

\* The multi-page loop of lines 188-230, from segment `boundary` on.
RECURSIVE ReadLoop(_, _, _, _, _, _, _)
ReadLoop(b, sl, boundary, boundaries, data, fault, stage) ==
    IF boundary > boundaries
    THEN [bus |-> b, status |-> EEPROM_OK, data |-> data]
    ELSE With(ReadSegment(b, SliceAddr(sl, boundary), StartIdx(sl, boundary),
                          SliceLen(sl, boundary), data, fault, stage, boundary),
        LAMBDA m :
        IF Aborts(m.status) THEN m
        ELSE With(IF SettleAfter(boundary, boundaries) THEN Wait(m.bus) ELSE m.bus, LAMBDA b3 :
                ReadLoop(b3, sl, boundary + 1, boundaries, m.data, fault, stage)))

ReadReturn_NoUnlock(m, tab) ==
    [bus |-> m.bus, chunks |-> tab, status |-> m.status, data |-> m.data]

\* Lines 233/170/176/195/218: every return after the lock releases it once.
ReadReturn(m, tab) ==
    [bus |-> I2cUnlock(m.bus), chunks |-> tab, status |-> m.status, data |-> m.data]

read_from_address(b, tab, address, data, data_length, fault, stage) ==
    IF LengthIsZero(data_length)
    THEN [bus |-> b, chunks |-> tab, status |-> EEPROM_DATA_LENGTH_ZERO, data |-> data]
    ELSE With(get_array_slice_locs(tab, address, data_length), LAMBDA p :
         With(I2cLock(b), LAMBDA b1 :
            IF p.hang
            THEN \* line 161 does not come back: the lock of line 156 stays held
                 [bus |-> b1, chunks |-> p.chunks, status |-> NoReturn, data |-> data]
            ELSE IF p.boundaries = 0
            THEN With(ReadSegment(b1, address, 0, data_length, data, fault, stage, 0),
                      LAMBDA m : ReadReturn(m, p.chunks))
            ELSE With(ReadLoop(b1, p.chunks, 0, p.boundaries, data, fault, stage),
                      LAMBDA m : ReadReturn(m, p.chunks))))

----------------------------------------------------------------------------
(* write_to_address.  WriteLocked is the call up to the release of the bus  *)
(* lock; WriteVerify is the verification pass that follows it.              *)

LengthIsOdd_Never(data_length) == FALSE

LengthIsOdd(data_length) == data_length % 2 /= 0

\* The data bytes of one segment, written one by one until one is not acknowledged.
\* w is [bus, ok, i]; i is the index of the next byte.
WriteByte(w, bytes, fault, seg) ==
    [bus |-> I2cWrite(w.bus, bytes[w.i], Acked(fault, "main", seg, "data", w.i - 1)),
     ok |-> Acked(fault, "main", seg, "data", w.i - 1),
     i |-> w.i + 1]

\* At most k bytes.
RECURSIVE WriteBytesRun(_, _, _, _, _)
WriteBytesRun(w, bytes, fault, seg, k) ==
    IF k = 0 \/ w.i > Len(bytes) \/ ~w.ok THEN w
    ELSE With(WriteByte(w, bytes, fault, seg),
              LAMBDA w1 : WriteBytesRun(w1, bytes, fault, seg, k - 1))

RECURSIVE WriteBytesFrom(_, _, _, _)
WriteBytesFrom(w, bytes, fault, seg) ==
    IF w.i > Len(bytes) \/ ~w.ok THEN w
    ELSE With(WriteBytesRun(w, bytes, fault, seg, BatchLen),
              LAMBDA w1 : WriteBytesFrom(w1, bytes, fault, seg))

WriteBytes(b, bytes, i, fault, seg) ==
    WriteBytesFrom([bus |-> b, ok |-> TRUE, i |-> i], bytes, fault, seg)

\* One page-level write (lines 279-296, 310-352): the address phase left open, the
\* data bytes, the stop.  Returns [bus, status, phase]: phase names the step that
\* failed.  The caller's disable_write and unlock are not included.
WriteSegment(b, address, bytes, fault, seg) ==
    With(set_operation_address(b, address, FALSE, fault, "main", seg), LAMBDA r :
        IF r.status /= EEPROM_OK
        THEN [bus |-> r.bus, status |-> r.status, phase |-> "address"]
        ELSE With(WriteBytes(r.bus, bytes, 1, fault, seg), LAMBDA w :
            IF ~w.ok
            THEN [bus |-> w.bus, status |-> EEPROM_WRITE_FAIL, phase |-> "data"]
            ELSE [bus |-> I2cStop(w.bus), status |-> EEPROM_OK, phase |-> "done"]))

\* The multi-page loop of lines 306-362, from segment `boundary` on.
RECURSIVE WriteLoop(_, _, _, _, _, _)
WriteLoop(b, sl, boundary, boundaries, data, fault) ==
    IF boundary > boundaries
    THEN [bus |-> b, status |-> EEPROM_OK, phase |-> "done"]
    ELSE With(WriteSegment(b, SliceAddr(sl, boundary),
                           SubSeq(data, StartIdx(sl, boundary) + 1,
                                  StartIdx(sl, boundary) + SliceLen(sl, boundary)),
                           fault, boundary),
        LAMBDA m :
        IF Aborts(m.status) THEN m
        ELSE With(IF SettleAfter(boundary, boundaries) THEN Wait(m.bus) ELSE m.bus, LAMBDA b3 :
                WriteLoop(b3, sl, boundary + 1, boundaries, data, fault)))

\* The return of the single-page branch: line 282 releases the lock only,
\* lines 290-291 and 365-366 disable the gate and release the lock.
WriteReturnSingle(m, tab) ==
    [bus |-> IF m.phase = "address" THEN I2cUnlock(m.bus)
             ELSE I2cUnlock(disable_write(m.bus)),
     chunks |-> tab, status |-> m.status, done |-> m.phase = "done"]

\* The return of the multi-page branch: lines 313-314, 344-345 and 365-366 all
\* disable the gate and release the lock.
WriteReturnMulti(m, tab) ==
    [bus |-> I2cUnlock(disable_write(m.bus)),
     chunks |-> tab, status |-> m.status, done |-> m.phase = "done"]

\* Lines 250-366: returns [bus, chunks, status, done]; done when line 368 is reached.
WriteLocked(b, tab, address, data, data_length, fault) ==
    IF LengthIsZero(data_length)
    THEN [bus |-> b, chunks |-> tab, status |-> EEPROM_DATA_LENGTH_ZERO, done |-> FALSE]
    ELSE IF LengthIsOdd(data_length)
    THEN [bus |-> b, chunks |-> tab, status |-> EEPROM_DATA_LENGTH_ODD, done |-> FALSE]
    ELSE With(get_array_slice_locs(tab, address, data_length), LAMBDA p :
         With(enable_write(I2cLock(b)), LAMBDA b1 :
            IF p.hang
            THEN \* line 273 does not come back: the lock and the gate stay as lines
                 \* 266 and 268 left them
                 [bus |-> b1, chunks |-> p.chunks, status |-> NoReturn, done |-> FALSE]
            ELSE IF p.boundaries = 0
            THEN With(WriteSegment(b1, address, SubSeq(data, 1, data_length), fault, 0),
                      LAMBDA m : WriteReturnSingle(m, p.chunks))
            ELSE With(WriteLoop(b1, p.chunks, 0, p.boundaries, data, fault),
                      LAMBDA m : WriteReturnMulti(m, p.chunks))))

\* The comparison of lines 383-389.
VerifyStatus_FirstByteOnly(data, data_verify, data_length) ==
    IF data[1] /= data_verify[1] THEN EEPROM_VERIFY_FAIL ELSE EEPROM_OK

VerifyStatus(data, data_verify, data_length) ==
    IF \E i \in 1..data_length : data[i] /= data_verify[i]
    THEN EEPROM_VERIFY_FAIL ELSE EEPROM_OK

\* char data_verify[data_length] is not initialised: it holds what the stack held,
\* either bytes unrelated to data or (stale) a copy of the bytes just written.
Uninitialised(data, data_length, stale) ==
    IF stale THEN SubSeq(data, 1, data_length) ELSE Blank(data_length)

\* Lines 368-392 with verify true: returns [bus, chunks, status, readback, data_verify].
WriteVerify(b, tab, address, data, data_length, fault, stale) ==
    With(read_from_address(Wait(b), tab, address,
                           Uninitialised(data, data_length, stale),
                           data_length, fault, "verify"),
        LAMBDA rd :
        [bus |-> rd.bus, chunks |-> rd.chunks, data_verify |-> rd.data,
         readback |-> rd.status, verified |-> TRUE,
         status |-> IF rd.status /= EEPROM_OK THEN EEPROM_READ_FAIL
                    ELSE VerifyStatus(data, rd.data, data_length)])

write_to_address(b, tab, address, data, data_length, verify, fault, stale) ==
    With(WriteLocked(b, tab, address, data, data_length, fault), LAMBDA w :
        IF w.done /\ verify
        THEN WriteVerify(w.bus, w.chunks, address, data, data_length, fault, stale)
        ELSE [bus |-> w.bus, chunks |-> w.chunks, data_verify |-> <<>>,
              readback |-> EEPROM_OK, verified |-> FALSE, status |-> w.status])

----------------------------------------------------------------------------
(* Requests: the inputs of the calls.                                       *)

Req(op, address, n, pat, verify, fault, stale, bad) ==
    [op |-> op, address |-> address, n |-> n, pat |-> pat, verify |-> verify,
     fault |-> fault, stale |-> stale, bad |-> bad]

Rd(address, n, fault) == Req("read", address, n, 1, FALSE, fault, FALSE, -1)

Wr(address, n, verify, fault) == Req("write", address, n, 1, verify, fault, FALSE, -1)

\* Number of pages the request <<address, data_length>> touches.
NumSegs(sh) == (PageOf((sh[1] + sh[2]) - 1) - PageOf(sh[1])) + 1

\* <<address, data_length>> of the requests: rejected lengths; one, two, three and
\* four pages.
BadShapes == {<<0, 0>>, <<0, -1>>}
WrapShapes == {<<65535, 2>>}
OddShapes == {<<0, 3>>, <<62, 67>>}
EvenShapes == {<<0, 2>>, <<62, 66>>, <<62, 68>>, <<62, 132>>}

\* Requests on a device that acknowledges every byte.
ReadReqs ==
    {Rd(sh[1], sh[2], NoFault) : sh \in BadShapes \cup {<<0, 3>>} \cup EvenShapes}
    \* the last cell of the address space, and a range that runs over its end
    \cup {Rd(65535, 1, NoFault)}
    \cup {Rd(sh[1], sh[2], NoFault) : sh \in WrapShapes}

WriteReqs ==
    {Wr(sh[1], sh[2], TRUE, NoFault) : sh \in BadShapes \cup OddShapes}
    \cup {Wr(sh[1], sh[2], FALSE, NoFault) : sh \in {<<0, 0>>, <<0, 3>>} \cup EvenShapes}
    \cup {Wr(sh[1], sh[2], TRUE, NoFault) : sh \in EvenShapes \ {<<62, 132>>}}
    \* the verification buffer happens to hold the bytes written
    \cup {Req("write", sh[1], sh[2], 1, TRUE, NoFault, TRUE, -1) :
            sh \in {<<62, 68>>, <<62, 132>>}}
    \* the cell at address + 1 does not take the byte written to it
    \cup {Req("write", sh[1], sh[2], 1, TRUE, NoFault, FALSE, sh[1] + 1) :
            sh \in {<<0, 2>>, <<62, 66>>}}
    \* another caller buffer
    \cup {Req("write", 62, 68, 2, TRUE, NoFault, TRUE, -1),
          Req("write", 0, 2, 2, FALSE, NoFault, FALSE, -1)}
    \* the last two cells of the address space, and a range that runs over its end
    \cup {Wr(65534, 2, TRUE, NoFault)}
    \cup {Wr(sh[1], sh[2], TRUE, NoFault) : sh \in WrapShapes}

\* Requests during which the device does not acknowledge one transfer.
AddressKinds == {"sel", "msb", "lsb"}

NackReadReqs ==
    {Rd(0, 0, NoFault), Rd(0, -1, NoFault), Rd(0, 2, NoFault), Rd(62, 66, NoFault)}
    \cup {Rd(0, 2, {<<"main", 0, k, 0>>}) : k \in AddressKinds \cup {"read"}}
    \cup {Rd(62, 66, {<<"main", 1, k, 0>>}) : k \in AddressKinds \cup {"read"}}
    \cup {Rd(62, 66, {<<"main", 0, "sel", 0>>})}
    \* two transfers of one address phase would fail
    \cup {Rd(0, 2, {<<"main", 0, "sel", 0>>, <<"main", 0, "msb", 0>>})}

NackWriteReqs ==
    {Wr(0, 0, TRUE, NoFault), Wr(0, -1, FALSE, NoFault), Wr(0, 3, TRUE, NoFault)}
    \* the cell at address 1 does not take the byte written to it
    \cup {Req("write", 0, 2, 1, TRUE, NoFault, FALSE, 1)}
    \cup {Wr(sh[1], sh[2], v, NoFault) : sh \in {<<0, 2>>, <<62, 66>>}, v \in BOOLEAN}
    \* one transfer of the write fails
    \cup {Wr(0, 2, FALSE, {<<"main", 0, k, 0>>}) : k \in AddressKinds \cup {"data"}}
    \cup {Wr(62, 66, FALSE, {<<"main", 1, k, 0>>}) : k \in AddressKinds \cup {"data"}}
    \cup {Wr(0, 2, FALSE, {<<"main", 0, "data", 1>>}),
          Wr(62, 66, FALSE, {<<"main", 1, "data", 1>>}),
          Wr(62, 66, FALSE, {<<"main", 0, "lsb", 0>>}),
          Wr(62, 66, FALSE, {<<"main", 0, "data", 1>>})}
    \cup {Wr(0, 2, TRUE, {<<"main", 0, "sel", 0>>}),
          Wr(62, 66, TRUE, {<<"main", 1, "msb", 0>>}),
          Wr(62, 66, TRUE, {<<"main", 1, "data", 0>>})}
    \cup {Wr(62, 66, FALSE, {<<"main", 1, "msb", 0>>, <<"main", 1, "lsb", 0>>})}
    \* the middle segment of three fails
    \cup {Wr(62, 68, FALSE, {<<"main", 1, "data", 5>>}),
          Wr(62, 68, FALSE, {<<"main", 1, "sel", 0>>})}
    \* one transfer of the verification read-back fails
    \cup {Wr(0, 2, TRUE, {<<"verify", 0, k, 0>>}) : k \in {"sel", "read"}}
    \cup {Wr(62, 66, TRUE, {<<"verify", 1, k, 0>>}) : k \in AddressKinds \cup {"read"}}
    \cup {Wr(62, 66, TRUE, {<<"verify", 0, "msb", 0>>})}

----------------------------------------------------------------------------
(* State *)

Threads == 1..NumThreads

NoCall ==
    [op |-> "none", thread |-> 0, id |-> 0, address |-> 0, n |-> 0, pat |-> 0,
     verify |-> FALSE, fault |-> NoFault, stale |-> FALSE, bad |-> -1,
     status |-> EEPROM_OK, data |-> <<>>, trace |-> <<>>, verified |-> FALSE,
     readback |-> EEPROM_OK, data_verify |-> <<>>, wc0 |-> EEPROM_WRITE_DISABLE,
     depth0 |-> 0, tab0 |-> <<>>]

NoPlan == [start_address |-> 0, data_length |-> 0, chunks |-> <<>>, boundaries |-> 0,
           oob |-> FALSE, hang |-> FALSE]

\* The bus as a call finds it; bad is the failing cell of the array, -1 for none.
BusOf(bad) ==
    [mem |-> mem, ptr |-> devPtr, pnd |-> devPend, rx |-> devRx, wc |-> write_control,
     depth |-> lockDepth, trace |-> <<>>, bad |-> bad]

\* Constructor STM24256::STM24256: write_control starts disabled.
Init ==
    /\ mem = <<>>
    /\ devPtr = 0
    /\ devPend = <<>>
    /\ devRx = 0
    /\ write_control = EEPROM_WRITE_DISABLE
    /\ lockOwner = 0
    /\ lockDepth = 0
    /\ chunks = [i \in 0..(TableSize - 1) |-> <<0, 0>>]
    /\ pend = [t \in Threads |-> NoCall]
    /\ call = NoCall
    /\ prev = NoCall
    /\ plan = NoPlan
    /\ busLog = <<>>
    /\ ncalls = 0

SetBus(b, t) ==
    /\ mem' = b.mem
    /\ devPtr' = b.ptr
    /\ devPend' = b.pnd
    /\ devRx' = b.rx
    /\ write_control' = b.wc
    /\ lockDepth' = b.depth
    /\ lockOwner' = IF b.depth > 0 THEN t ELSE 0

CallOf(q, t) ==
    [NoCall EXCEPT !.op = q.op, !.thread = t, !.id = ncalls + 1, !.address = q.address,
                   !.n = q.n, !.pat = q.pat, !.verify = q.verify, !.fault = q.fault,
                   !.stale = q.stale, !.bad = q.bad, !.wc0 = write_control,
                   !.depth0 = lockDepth, !.tab0 = chunks]

\* One call of read_from_address by thread t.
ReadCall(t, reqs) ==
    \E q \in reqs :
        /\ ncalls < MaxCalls
        /\ lockOwner = 0
        /\ pend[t] = NoCall
        /\ \E r \in {read_from_address(BusOf(q.bad), chunks, q.address, Blank(q.n), q.n,
                                       q.fault, "main")} :
              /\ SetBus(r.bus, t)
              /\ chunks' = r.chunks
              /\ call' = [CallOf(q, t) EXCEPT !.status = r.status, !.data = r.data,
                                              !.trace = r.bus.trace]
              /\ busLog' = IF r.bus.trace = <<>> THEN busLog
                           ELSE Append(busLog, <<t, ncalls + 1, "read">>)
        /\ prev' = call
        /\ ncalls' = ncalls + 1
        /\ UNCHANGED <<pend, plan>>

\* One call of write_to_address by thread t, alone on the bus.
WriteCall(t, reqs) ==
    \E q \in reqs :
        /\ ncalls < MaxCalls
        /\ lockOwner = 0
        /\ pend[t] = NoCall
        /\ \E data \in {DataOf(q.pat, q.n)} :
           \E r \in {write_to_address(BusOf(q.bad), chunks, q.address, data, q.n,
                                      q.verify, q.fault, q.stale)} :
              /\ SetBus(r.bus, t)
              /\ chunks' = r.chunks
              /\ call' = [CallOf(q, t) EXCEPT !.status = r.status, !.data = data,
                                              !.trace = r.bus.trace,
                                              !.verified = r.verified,
                                              !.readback = r.readback,
                                              !.data_verify = r.data_verify]
              /\ busLog' = IF r.bus.trace = <<>> THEN busLog
                           ELSE Append(busLog, <<t, ncalls + 1, "write">>)
        /\ prev' = call
        /\ ncalls' = ncalls + 1
        /\ UNCHANGED <<pend, plan>>

\* A single caller and a device that acknowledges every byte.
Next == ReadCall(1, ReadReqs) \/ WriteCall(1, WriteReqs)

Spec == Init /\ [][Next]_vars

\* A single caller and a device that may fail one transfer of each call.
NextNack == ReadCall(1, NackReadReqs) \/ WriteCall(1, NackWriteReqs)

SpecNack == Init /\ [][NextNack]_vars

----------------------------------------------------------------------------
(* The planner on its own: get_array_slice_locs applied to a request, on    *)
(* the static table as the call before left it.                             *)

PlanShapes ==
    {<<a, n>> : a \in {0, 32, 63, 64}, n \in {1, 2, 64, 65, 129}}
    \cup {<<1, 960>>, <<0, 1024>>, <<1, 1024>>}

PlanCall(shapes) ==
    \E sh \in shapes :
        /\ ncalls < MaxCalls
        /\ \E p \in {get_array_slice_locs(chunks, sh[1], sh[2])} :
              /\ plan' = [start_address |-> sh[1], data_length |-> sh[2],
                          chunks |-> p.chunks, boundaries |-> p.boundaries,
                          oob |-> p.oob, hang |-> p.hang]
              /\ chunks' = p.chunks
        /\ ncalls' = ncalls + 1
        /\ UNCHANGED <<mem, devPtr, devPend, devRx, write_control, lockOwner, lockDepth,
                       pend, call, prev, busLog>>

NextPlan == PlanCall(PlanShapes)

SpecPlan == Init /\ [][NextPlan]_vars

----------------------------------------------------------------------------
(* Concurrent callers of one device handle.  The I2C mutex serialises the   *)
(* locked regions, so a locked region is one step: the whole of a read, a   *)
(* write up to line 366, the verification pass of lines 368-392.            *)

ConcReadReqs == {Rd(0, 2, NoFault), Rd(62, 66, NoFault)}

ConcWriteReqs ==
    {Wr(0, 2, v, NoFault) : v \in BOOLEAN}
    \cup {Wr(62, 66, TRUE, NoFault), Wr(0, 3, TRUE, NoFault),
          Req("write", 0, 2, 2, TRUE, NoFault, FALSE, -1)}

\* Thread t runs write_to_address up to the release of the lock at line 366.
WriteBegin(t, reqs) ==
    \E q \in reqs :
        /\ ncalls < MaxCalls
        /\ lockOwner = 0
        /\ pend[t] = NoCall
        /\ \E data \in {DataOf(q.pat, q.n)} :
           \E w \in {WriteLocked(BusOf(q.bad), chunks, q.address, data, q.n, q.fault)} :
           \E c \in {[CallOf(q, t) EXCEPT !.status = w.status, !.data = data,
                                          !.trace = w.bus.trace]} :
              /\ SetBus(w.bus, t)
              /\ chunks' = w.chunks
              /\ busLog' = IF w.bus.trace = <<>> THEN busLog
                           ELSE Append(busLog, <<t, ncalls + 1, "write">>)
              /\ IF w.done /\ q.verify
                 THEN /\ pend' = [pend EXCEPT ![t] = c]
                      /\ UNCHANGED <<call, prev>>
                 ELSE /\ call' = c
                      /\ prev' = call
                      /\ UNCHANGED pend
        /\ ncalls' = ncalls + 1
        /\ UNCHANGED plan

\* Thread t runs the verification pass of its write and returns.
WriteFinish(t) ==
    /\ pend[t] /= NoCall
    /\ lockOwner = 0
    /\ \E v \in {WriteVerify(BusOf(pend[t].bad), chunks, pend[t].address, pend[t].data,
                             pend[t].n, pend[t].fault, pend[t].stale)} :
          /\ SetBus(v.bus, t)
          /\ chunks' = v.chunks
          /\ call' = [pend[t] EXCEPT !.status = v.status,
                                     !.trace = pend[t].trace \o v.bus.trace,
                                     !.verified = TRUE, !.readback = v.readback,
                                     !.data_verify = v.data_verify]
          /\ busLog' = Append(busLog, <<t, pend[t].id, "verify">>)
    /\ prev' = call
    /\ pend' = [pend EXCEPT ![t] = NoCall]
    /\ UNCHANGED <<plan, ncalls>>

NextConc ==
    \E t \in Threads :
        \/ ReadCall(t, ConcReadReqs)
        \/ WriteBegin(t, ConcWriteReqs)
        \/ WriteFinish(t)

SpecConc == Init /\ [][NextConc]_vars

----------------------------------------------------------------------------
(* What a call put on the bus, read off its trace.                          *)

IsEv(tr, k, kind) == tr[k][1] = kind

\* Index of the last start condition before event k.
StartBefore(tr, k) ==
    CHOOSE s \in 1..k : IsEv(tr, s, "start") /\ \A j \in (s + 1)..k : ~IsEv(tr, j, "start")

\* Position of the byte write at k in its transaction: 1 select, 2 and 3 address,
\* 4 and up data.
PosInTransaction(tr, k) ==
    Cardinality({j \in StartBefore(tr, k)..k : IsEv(tr, j, "write")})

\* The p-th byte written after the start condition at s.
ByteAt(tr, s, p) ==
    tr[CHOOSE j \in s..Len(tr) :
            IsEv(tr, j, "write") /\ StartBefore(tr, j) = s /\ PosInTransaction(tr, j) = p][2]

\* <<device address, byte>> of every acknowledged data byte of the trace.
DataSent(tr) ==
    {<<((ByteAt(tr, StartBefore(tr, k), 2) * Uint8) + ByteAt(tr, StartBefore(tr, k), 3))
          + (PosInTransaction(tr, k) - 4), tr[k][2]>> :
        k \in {j \in 1..Len(tr) : /\ IsEv(tr, j, "write")
                                  /\ tr[j][3] = 1
                                  /\ PosInTransaction(tr, j) >= 4}}

\* Index of the transfer that was not acknowledged, 0 when all were.
NackIdx(tr) ==
    IF \E k \in 1..Len(tr) : tr[k][1] \in {"write", "read"} /\ tr[k][3] = 0
    THEN CHOOSE k \in 1..Len(tr) : tr[k][1] \in {"write", "read"} /\ tr[k][3] = 0
    ELSE 0

\* No start, byte write or block read after event k.
NothingSentAfter(tr, k) ==
    \A j \in (k + 1)..Len(tr) : tr[j][1] \notin {"start", "write", "read"}

\* A transfer of the call was not acknowledged.
FaultHit(c) == NackIdx(c.trace) /= 0

\* The transfer not acknowledged was byte p of an address phase
\* (1 array select, 2 address high byte, 3 address low byte).
AddressNack(c, p) ==
    /\ FaultHit(c)
    /\ IsEv(c.trace, NackIdx(c.trace), "write")
    /\ PosInTransaction(c.trace, NackIdx(c.trace)) = p

----------------------------------------------------------------------------
(* Claims *)

\* C1: every return of write_to_address, on success and on every failure path,
\* leaves the write-control line disabled, so the gate is disabled whenever no
\* write call is in progress.
C1_GateDisabledBetweenCalls == write_control = EEPROM_WRITE_DISABLE

\* C2: round trip.  A write with verify=true that returns EEPROM_OK, followed by a
\* read of the same range, gives EEPROM_OK and the bytes written.
C2_RoundTrip ==
    (/\ prev.op = "write" /\ prev.verify /\ prev.status = EEPROM_OK
     /\ call.op = "read" /\ call.address = prev.address /\ call.n = prev.n)
    => /\ call.status = EEPROM_OK
       /\ \A i \in 1..call.n : call.data[i] = prev.data[i]

\* C3: a read that returns EEPROM_OK has stored in data[i] the device byte at
\* address + i, for every 0 <= i < n and any number of segments.
C3_ReadStoresDeviceBytes ==
    (call.op = "read" /\ call.status = EEPROM_OK)
    => \A i \in 1..call.n : call.data[i] = DevByte(mem, call.address + (i - 1))

\* C4: a fully acknowledged write with verify=false sends data[i] to device address
\* address + i for every 0 <= i < n, and nothing else.
C4_WriteSendsEachByte ==
    (call.op = "write" /\ ~call.verify /\ call.status = EEPROM_OK)
    => DataSent(call.trace) = {<<call.address + (i - 1), call.data[i]>> : i \in 1..call.n}

\* The segments 0..boundaries of the last plan.
RECURSIVE SumLen(_, _)
SumLen(sl, k) == IF k < 0 THEN 0 ELSE SliceLen(sl, k) + SumLen(sl, k - 1)

SegmentsPartition(p) ==
    /\ SliceAddr(p.chunks, 0) = p.start_address
    /\ SumLen(p.chunks, p.boundaries) = p.data_length
    /\ \A k \in 0..p.boundaries :
          /\ SliceLen(p.chunks, k) >= 1
          /\ PageOf(SliceAddr(p.chunks, k))
                = PageOf((SliceAddr(p.chunks, k) + SliceLen(p.chunks, k)) - 1)
    /\ \A k \in 1..p.boundaries :
          SliceAddr(p.chunks, k) = SliceAddr(p.chunks, k - 1) + SliceLen(p.chunks, k - 1)

\* C5: for every request with data_length > 0 the planner yields boundaries + 1
\* segments, entries 0..boundaries of its table, of length >= 1, summing to
\* data_length, starting at start_address, contiguous and ascending, each inside one
\* 64-byte page; a request inside one page yields the one segment equal to it.
C5_PlanPartitions ==
    plan.data_length > 0
    => /\ ~plan.hang
       /\ ~plan.oob
       /\ plan.boundaries < TableSize
       /\ SegmentsPartition(plan)
       /\ PageOf(plan.start_address)
            = PageOf((plan.start_address + plan.data_length) - 1)
            => (plan.boundaries = 0
                /\ plan.chunks[0] = <<plan.data_length, plan.start_address>>)

\* C6: under concurrent callers the bus is held by one call from its first address
\* phase through its verification read-back: in the order of the locked bus regions
\* the verification read of a write directly follows the write segments of that call.
C6_VerifyFollowsWrite ==
    \A k \in 1..Len(busLog) :
        busLog[k][3] = "verify"
        => (k > 1 /\ busLog[k - 1] = <<busLog[k][1], busLog[k][2], "write">>)

\* C7: in the address phase the first byte not acknowledged decides the status
\* (array select, high byte, low byte), nothing more is sent, and read_from_address
\* and the write segments of write_to_address return that status unchanged, in the
\* first segment and in a later one.
\* The status read_from_address or the write segments returned: the status of the
\* call, or of the read-back when the address phase that failed was the read-back's.
AddressFaultStatus(c) == IF c.verified THEN c.readback ELSE c.status

C7_AddressPhaseStatus ==
    /\ AddressNack(call, 1)
        => AddressFaultStatus(call) = EEPROM_SET_OP_ADDRESS_FAIL_MEM_ARRAY
    /\ AddressNack(call, 2)
        => AddressFaultStatus(call) = EEPROM_SET_OP_ADDRESS_FAIL_MSB
    /\ AddressNack(call, 3)
        => AddressFaultStatus(call) = EEPROM_SET_OP_ADDRESS_FAIL_LSB
    /\ (\E p \in 1..3 : AddressNack(call, p))
        => NothingSentAfter(call.trace, NackIdx(call.trace))

C7_Witness ==
    /\ prev.op = "read" /\ AddressNack(prev, 1)
    /\ prev.fault = {<<"main", 0, "sel", 0>>, <<"main", 0, "msb", 0>>}
    /\ prev.status = EEPROM_SET_OP_ADDRESS_FAIL_MEM_ARRAY
    /\ call.op = "write" /\ AddressNack(call, 3)
    /\ call.fault = {<<"main", 1, "lsb", 0>>}
    /\ call.status = EEPROM_SET_OP_ADDRESS_FAIL_LSB

\* C8: after a fully acknowledged write with verify=true, a read-back that succeeds
\* and differs in some position gives EEPROM_VERIFY_FAIL, one that succeeds and
\* matches gives EEPROM_OK, and one that fails gives a status that is neither.
C8_VerifyOutcome ==
    (call.op = "write" /\ call.verified)
    => /\ (call.readback = EEPROM_OK
            /\ \E i \in 1..call.n : call.data_verify[i] /= call.data[i])
            => call.status = EEPROM_VERIFY_FAIL
       /\ (call.readback = EEPROM_OK
            /\ \A i \in 1..call.n : call.data_verify[i] = call.data[i])
            => call.status = EEPROM_OK
       /\ call.readback /= EEPROM_OK
            => call.status \notin {EEPROM_VERIFY_FAIL, EEPROM_OK}

C8_Witness ==
    /\ prev.op = "write" /\ prev.verified /\ prev.readback = EEPROM_OK
    /\ prev.status = EEPROM_VERIFY_FAIL
    /\ call.op = "write" /\ call.verified /\ call.readback /= EEPROM_OK
    /\ call.status = EEPROM_READ_FAIL

\* C9: read_from_address and write_to_address with data_length <= 0 return
\* EEPROM_DATA_LENGTH_ZERO without taking the lock, without any start, transfer or
\* stop, and without changing the write-control line.
C9_ZeroLength ==
    (call.op /= "none" /\ call.n <= 0)
    => /\ call.status = EEPROM_DATA_LENGTH_ZERO
       /\ call.trace = <<>>
       /\ write_control = call.wc0
       /\ lockDepth = call.depth0

C9_Witness ==
    /\ prev.op = "read" /\ prev.n = 0 /\ prev.status = EEPROM_DATA_LENGTH_ZERO
    /\ call.op = "write" /\ call.n < 0 /\ call.status = EEPROM_DATA_LENGTH_ZERO

\* C10: write_to_address with an odd data_length > 0 returns EEPROM_DATA_LENGTH_ODD
\* without any bus transaction, without enabling the gate, without running the
\* planner or the verification read, whatever verify is.
C10_OddLength ==
    (call.op = "write" /\ call.n > 0 /\ call.n % 2 = 1)
    => /\ call.status = EEPROM_DATA_LENGTH_ODD
       /\ call.trace = <<>>
       /\ write_control = call.wc0
       /\ chunks = call.tab0
       /\ ~call.verified

C10_Witness ==
    /\ prev.op = "write" /\ prev.n = 3 /\ ~prev.verify
    /\ prev.status = EEPROM_DATA_LENGTH_ODD
    /\ call.op = "write" /\ call.n = 67 /\ call.verify
    /\ call.status = EEPROM_DATA_LENGTH_ODD

\* C11: every call of read_from_address and write_to_address returns a status, also
\* when start_address + data_length exceeds 65536.
C11_CallsReturn == call.op /= "none" => call.status /= NoReturn

\* Transfers of the trace that were not acknowledged.
Nacks(tr) == {k \in 1..Len(tr) : tr[k][1] \in {"write", "read"} /\ tr[k][3] = 0}

\* Start conditions of the trace.
Starts(tr) == {k \in 1..Len(tr) : IsEv(tr, k, "start")}

\* The start condition that follows the one at s, 0 when s is the last.
NextStart(tr, s) ==
    IF \E x \in Starts(tr) : x > s
    THEN CHOOSE x \in Starts(tr) : x > s /\ \A y \in Starts(tr) : y > s => x <= y
    ELSE 0

\* Events of the transaction opened by the start condition at s: up to the next
\* start condition.
Transaction(tr, s) ==
    IF NextStart(tr, s) = 0 THEN s..Len(tr) ELSE s..(NextStart(tr, s) - 1)

\* The transaction opened at s carried the address and len data bytes, all
\* acknowledged, and was closed by one stop condition.
SegmentClosed(tr, s, len) ==
    /\ Cardinality({j \in Transaction(tr, s) : IsEv(tr, j, "write") /\ tr[j][3] = 1})
            = 3 + len
    /\ Cardinality({j \in Transaction(tr, s) : IsEv(tr, j, "stop")}) = 1
    /\ Transaction(tr, s) \cap Nacks(tr) = {}

\* The segment of the first transfer the device was set not to acknowledge.
FailingSegment(c) == CHOOSE n \in {f[2] : f \in c.fault} : \A f \in c.fault : n <= f[2]

\* C12: after the first transfer not acknowledged, a call issues no further start,
\* byte write or block read; when segment N of a write fails, every segment before N
\* was sent completely and closed by a stop, and no segment after N was started.
C12_AbortAtFirstFailure ==
    /\ \A k \in Nacks(call.trace) : NothingSentAfter(call.trace, k)
    /\ (call.op = "write" /\ FaultHit(call) /\ ~call.verified)
        => /\ Cardinality(Starts(call.trace)) = FailingSegment(call) + 1
           /\ \A s \in Starts(call.trace) :
                Cardinality({j \in Starts(call.trace) : j < s}) < FailingSegment(call)
                => SegmentClosed(call.trace, s,
                        SliceLen(chunks, Cardinality({j \in Starts(call.trace) : j < s})))

C12_Witness ==
    /\ call.op = "write" /\ call.address = 62 /\ call.n = 68
    /\ call.fault = {<<"main", 1, "data", 5>>}
    /\ call.status = EEPROM_WRITE_FAIL
    /\ Cardinality(Starts(call.trace)) = 2
    /\ Cardinality(DataSent(call.trace)) = 2 + 5

\* Settle delays among the events a..b of the trace.
Waits(tr, a, b) == {j \in a..b : IsEv(tr, j, "wait")}

\* C13: within one call there is exactly one settle delay between the end of a
\* page-level operation and the address phase of the next one (between the segments
\* of a read or write, and between the last write segment and the verification
\* read-back), and none before the first or after the last page-level operation.
C13_OneSettleDelayBetween ==
    /\ \A s \in Starts(call.trace) :
          IF NextStart(call.trace, s) = 0
          THEN Waits(call.trace, s, Len(call.trace)) = {}
          ELSE /\ Cardinality(Waits(call.trace, s, NextStart(call.trace, s))) = 1
               /\ \A j \in Waits(call.trace, s, NextStart(call.trace, s)) :
                     \A i \in j..NextStart(call.trace, s) :
                        call.trace[i][1] \notin {"write", "read", "stop"}
    /\ \A j \in Waits(call.trace, 1, Len(call.trace)) :
          \E s \in Starts(call.trace) : s < j

C13_Witness ==
    /\ prev.op = "read" /\ prev.n = 132 /\ prev.status = EEPROM_OK
    /\ Cardinality(Starts(prev.trace)) = 4
    /\ Cardinality(Waits(prev.trace, 1, Len(prev.trace))) = 3
    /\ call.op = "write" /\ call.n = 68 /\ call.verified
    /\ Cardinality(Starts(call.trace)) = 6
    /\ Cardinality(Waits(call.trace, 1, Len(call.trace))) = 5

\* The p-th byte write of the transaction opened at s.
WriteIdx(tr, s, p) ==
    CHOOSE j \in Transaction(tr, s) : IsEv(tr, j, "write") /\ PosInTransaction(tr, j) = p

NumWrites(tr, s) == Cardinality({j \in Transaction(tr, s) : IsEv(tr, j, "write")})

StopsIn(tr, s) == {j \in Transaction(tr, s) : IsEv(tr, j, "stop")}

\* The transaction opened at s belongs to the write segments of a write call: the
\* gate was enabled before it and not disabled since.
InWriteStage(tr, s) ==
    /\ \E j \in 1..s : tr[j] = <<"wc", EEPROM_WRITE_ENABLE, 0>>
    /\ \A j \in 1..s : tr[j] /= <<"wc", EEPROM_WRITE_DISABLE, 0>>

\* The three bytes of the address phase opened at s were acknowledged.
AddressAcked(tr, s) ==
    Cardinality({j \in Transaction(tr, s) : IsEv(tr, j, "write") /\ tr[j][3] = 1}) >= 3

\* A read segment: one stop after the address low byte, before the block read.
ReadStopSequence(tr, s) ==
    /\ Cardinality(StopsIn(tr, s)) = 1
    /\ NumWrites(tr, s) = 3
    /\ \E i \in Transaction(tr, s) : IsEv(tr, i, "read")
    /\ \A j \in StopsIn(tr, s) :
          /\ j > WriteIdx(tr, s, 3)
          /\ \A i \in Transaction(tr, s) : IsEv(tr, i, "read") => i > j

\* A write segment: no stop before the data bytes, one stop after the last of them,
\* before any settle delay.
WriteStopSequence(tr, s) ==
    /\ Cardinality(StopsIn(tr, s)) = 1
    /\ NumWrites(tr, s) > 3
    /\ \A j \in StopsIn(tr, s) :
          /\ j > WriteIdx(tr, s, NumWrites(tr, s))
          /\ \A i \in Transaction(tr, s) : IsEv(tr, i, "wait") => i > j

AddressNacks(tr, s) ==
    {j \in Transaction(tr, s) :
        IsEv(tr, j, "write") /\ tr[j][3] = 0 /\ PosInTransaction(tr, j) <= 3}

\* C15: set_operation_address issues a stop condition before it returns an
\* address-phase error, with send_stop true (reads) and false (writes).
C15_StopBeforeAddressError ==
    \A s \in Starts(call.trace) :
        \A k \in AddressNacks(call.trace, s) :
            Cardinality({j \in StopsIn(call.trace, s) : j > k}) = 1

C15_Witness ==
    /\ prev.op = "read" /\ AddressNack(prev, 2)
    /\ prev.status = EEPROM_SET_OP_ADDRESS_FAIL_MSB
    /\ call.op = "write" /\ ~call.verified /\ AddressNack(call, 1)
    /\ call.status = EEPROM_SET_OP_ADDRESS_FAIL_MEM_ARRAY
    /\ \E j \in 1..Len(call.trace) : IsEv(call.trace, j, "stop")

\* C16: a failed verification read-back is reported with the status of the step that
\* failed: write_to_address returns the address-phase sub-error of the read-back, and
\* EEPROM_READ_FAIL only for a failed block read.
C16_ReadbackStatusKept ==
    (call.op = "write" /\ call.verified /\ call.readback /= EEPROM_OK)
    => call.status = call.readback

\* Number of events of one kind among the first k events of the trace.
CountEv(tr, k, kind) == Cardinality({j \in 1..k : IsEv(tr, j, kind)})

\* C17: on every return of read_from_address and write_to_address (and of the
\* set_operation_address calls inside them) the _i2c.unlock() calls made equal the
\* _i2c.lock() calls made, so the lock is held zero times between calls.
C17_LockBalance ==
    (call.op /= "none" /\ call.status /= NoReturn)
    => /\ CountEv(call.trace, Len(call.trace), "lock")
            = CountEv(call.trace, Len(call.trace), "unlock")
       /\ \A k \in 1..Len(call.trace) :
            CountEv(call.trace, k, "unlock") <= CountEv(call.trace, k, "lock")
       /\ lockDepth = 0
       /\ lockOwner = 0

C17_Witness ==
    /\ prev.op = "write" /\ prev.n = 2 /\ AddressNack(prev, 1) /\ ~prev.verified
    /\ CountEv(prev.trace, Len(prev.trace), "lock") = 2
    /\ call.op = "write" /\ call.verified /\ call.status = EEPROM_READ_FAIL
    /\ call.readback = EEPROM_READ_FAIL
    /\ CountEv(call.trace, Len(call.trace), "unlock") > 4
    /\ lockDepth = 0

\* C18: when read_from_address or write_to_address returns, every start condition of
\* the call was followed by a stop condition (a block read carries its own), also
\* when a data byte of a write segment is not acknowledged.
C18_BusIdleAtReturn ==
    (call.op /= "none" /\ call.status /= NoReturn)
    => /\ \A s \in Starts(call.trace) : StopsIn(call.trace, s) /= {}
       /\ devPend = <<>>

\* C19: for every request with data_length > 0 the planner writes only entries 0..15
\* of its table and boundaries stays at most 15, also for requests that touch more
\* than 16 pages.
C19_TableBound ==
    plan.data_length > 0 => (~plan.oob /\ plan.boundaries <= TableSize - 1)

====
